---- MODULE Spec2Model ----
(***************************************************************************)
(* Axis tick generation and label fitting of the mapo charting library.   *)
(*                                                                         *)
(* Numbers.  The library computes in f64.  Here every finite f64 is an    *)
(* exact fixed-point number: an integer count of 1/Unit, so 1.0 is Unit,  *)
(* 0.5 is Unit \div 2, and all sums, remainders and quotients below are   *)
(* exact.  A value that the code can only produce as NaN is the record    *)
(* NaN.  Rounding error, overflow to infinity and underflow to zero of    *)
(* the binary format are outside this number model.                       *)
(*                                                                         *)
(* Six state machines share the module: SpecTick drives the pure tick     *)
(* spacing helpers of interval.rs on inputs drawn in TickInit; Spec       *)
(* drives an Axis (axis.rs) over the tickers of sequence.rs / ticker.rs;  *)
(* SpecInterval drives the constructors and methods of Interval;          *)
(* SpecTicker drives layout, get and ticks of every ticker variant;       *)
(* SpecDraw drives an Axis whose layout can fail and which is drawn;      *)
(* SpecHistogram drives the layout of a HistogramTrace.                   *)
(***************************************************************************)
EXTENDS Integers, Sequences, FiniteSets, TLC

VARIABLES
    tk_call,        \* which helper is being driven, "spacing" or "ticks"
    tk_pc,          \* "call" before the helper ran, "done" after
    tk_interval,    \* calc_tick_spacing: argument `interval`
    tk_target,      \* calc_tick_spacing: argument `target_count`
    tk_spacing,     \* calc_tick_spacing: returned value
    tk_v,           \* calc_next_tick / calc_prev_tick: argument `v`
    tk_s,           \* calc_next_tick / calc_prev_tick: argument `spacing`
    tk_next,        \* calc_next_tick: returned value
    tk_prev,        \* calc_prev_tick: returned value
    tk_too_many,    \* calc_tick_spacing: its local `too_many_10s`
    tk_step,        \* count_ticks / count_ticks_slow: argument `tick_step`
    tk_count,       \* count_ticks: returned value
    tk_count_slow,  \* count_ticks_slow: returned value
    ax_direction,       \* Axis.direction
    ax_axis_len,        \* Axis.axis_len
    ax_ticker,          \* Axis.ticker
    ax_label_layouts,   \* Axis.label_layouts: the measured size of each label
    ax_labels_to_draw,  \* Axis.labels_to_draw: indices (from 0) into label_layouts
    ax_line_height,     \* the render context's text line height
    ax_op,              \* the last operation on the axis
    iv_status,      \* "none" before construction, then "ok" or "panic"
    iv_ctor,        \* the constructor that built the interval
    iv_interval,    \* the Interval value held by the caller
    iv_op,          \* the last Interval operation called
    iv_args,        \* its arguments, as a list of f64
    tt_pc,              \* "new" before layout, then "laid_out" or "panic"
    tt_ticker,          \* the ticker
    tt_axis_len,        \* the axis length of the last layout
    tt_overflow_checks, \* whether the build panics on integer overflow
    tt_op,              \* the last Ticker method called
    tt_idx,             \* Ticker::get: argument `idx`
    tt_got,             \* Ticker::get: returned value
    tt_ticks,           \* Ticker::ticks: the ticks yielded, in order
    tt_relayout,        \* layout calls on the ticker so far: "none", "first",
                        \* or, from the second call on, whether the last
                        \* call had the "same" axis length as the call
                        \* before it or an "other" one
    dr_label_pos,   \* Axis.label_pos
    dr_layout,      \* the result of the last Axis::layout call since the
                    \* axis was built or given its ticker: "none", "Ok", "Err"
    dr_draw,        \* how the last Axis::draw call ended
    dr_drawn,       \* the labels that call drew: index and position
    hs_values,      \* HistogramTrace.values
    hs_size,        \* HistogramTrace.size
    hs_bar_width,   \* HistogramTrace.bar_width
    hs_positions,   \* HistogramTrace.positions
    hs_full_value,  \* HistogramTrace.full_value
    hs_default,     \* whether positions was never given by set_positions
    hs_op           \* the last operation on the trace

tk_vars == <<tk_call, tk_pc, tk_interval, tk_target, tk_spacing,
             tk_v, tk_s, tk_next, tk_prev,
             tk_too_many, tk_step, tk_count, tk_count_slow>>

ax_vars == <<ax_direction, ax_axis_len, ax_ticker, ax_label_layouts,
             ax_labels_to_draw, ax_line_height, ax_op>>

iv_vars == <<iv_status, iv_ctor, iv_interval, iv_op, iv_args>>

tt_vars == <<tt_pc, tt_ticker, tt_axis_len, tt_overflow_checks, tt_op,
             tt_idx, tt_got, tt_ticks, tt_relayout>>

dr_vars == <<dr_label_pos, dr_layout, dr_draw, dr_drawn>>

hs_vars == <<hs_values, hs_size, hs_bar_width, hs_positions, hs_full_value,
             hs_default, hs_op>>

vars == <<tk_vars, ax_vars, iv_vars, tt_vars, dr_vars, hs_vars>>

----------------------------------------------------------------------------
(* Number model *)

\* Fixed-point resolution: the number of model units in 1.0.
Unit == 10 * 10

\* 0.5
Half == Unit \div 2

\* A finite f64.
Num(x) == [class |-> "finite", v |-> x]

\* f64::NAN
NaN == [class |-> "nan", v |-> 0]

\* f64::INFINITY and f64::NEG_INFINITY
Infinity == [class |-> "inf", v |-> 1]
NegInfinity == [class |-> "inf", v |-> -1]

\* f64::is_nan
is_nan(x) == x.class = "nan"

\* Option<T>
None == [some |-> FALSE]
Some(x) == [some |-> TRUE, v |-> x]

\* `x as usize` on a float: the cast saturates, a negative value gives 0.
AsUsize(x) == IF x < 0 THEN 0 ELSE x

\* f64::rem_euclid(v, spacing) for spacing > 0: the remainder in [0, spacing).
rem_euclid(v, spacing) == v % spacing

\* 10^floor(log10(num / den)) for num / den >= 1 unit: the largest power of
\* ten p, starting from p, with 10 * p * den > num.
RECURSIVE Pow10Floor(_, _, _)
Pow10Floor(num, den, p) ==
    IF 10 * p * den <= num THEN Pow10Floor(num, den, 10 * p) ELSE p

----------------------------------------------------------------------------
(* interval.rs: Interval and the tick spacing helpers *)

\* Interval { min, max }
Interval(min, max) == [min |-> min, max |-> max]

\* Interval::is_valid (both bounds are finite in this number model)
is_valid(interval) == interval.min < interval.max

\* Interval::size
size(interval) == interval.max - interval.min

calc_next_tick_no_round(v, spacing) ==
    LET v_tick_diff == rem_euclid(v, spacing)
    IN  v - v_tick_diff + spacing

\* Location of the first tick of the given spacing at or after v.
calc_next_tick(v, spacing) ==
    LET v_tick_diff == rem_euclid(v, spacing)
    IN  IF v_tick_diff = 0 THEN v ELSE v - v_tick_diff + spacing

\* Location of the first tick of the given spacing at or before v.
calc_prev_tick(v, spacing) ==
    LET v_tick_diff == rem_euclid(v, spacing)
    IN  IF v_tick_diff = spacing THEN v ELSE v - v_tick_diff

count_ticks_no_fencepost(interval, tick_step) ==
    LET start == calc_next_tick(interval.min, tick_step)
        end   == calc_prev_tick(interval.max, tick_step)
    IN  AsUsize((end - start) \div tick_step)

\* Closed-form tick count.
count_ticks(interval, tick_step) ==
    LET start == calc_next_tick(interval.min, tick_step)
        end   == calc_prev_tick(interval.max, tick_step)
    IN  AsUsize((end - start) \div tick_step) + 1

\* The while loop of count_ticks_slow.
RECURSIVE count_ticks_slow_loop(_, _, _, _)
count_ticks_slow_loop(start, end, tick_step, tick_count) ==
    IF start <= end
    THEN count_ticks_slow_loop(start + tick_step, end, tick_step, tick_count + 1)
    ELSE tick_count

\* Iterative tick count.
count_ticks_slow(interval, tick_step) ==
    LET start == calc_next_tick(interval.min, tick_step)
        end   == calc_prev_tick(interval.max, tick_step)
    IN  count_ticks_slow_loop(start, end, tick_step, 1) - 1

pow_10_step_up(interval, num_ticks) ==
    LET n          == num_ticks - 1
        spacing    == Pow10Floor(size(interval), n, 1)
        first_tick == calc_next_tick(interval.min, spacing)
    IN  IF first_tick + n * spacing < calc_prev_tick(interval.max, spacing)
        THEN spacing
        ELSE spacing * 10

pow_10_first_guess(interval, num_ticks) ==
    Pow10Floor(size(interval), num_ticks - 1, 1)

\* The power of ten that gives just too many ticks.
pow_10_just_too_many(interval, num_ticks) ==
    LET n          == num_ticks - 1
        spacing    == Pow10Floor(size(interval), n, 1)
        first_tick == calc_next_tick(interval.min, spacing)
    IN  IF first_tick + n * spacing < calc_prev_tick(interval.max, spacing)
        THEN spacing
        ELSE spacing \div 10

calc_tick_spacing_guard_2(interval, target_count) ==
    IF target_count <= 2 \/ size(interval) = 0
    THEN NaN
    ELSE LET too_many_10s == pow_10_just_too_many(interval, target_count)
         IN  IF count_ticks(interval, 2 * too_many_10s) <= target_count
             THEN Num(2 * too_many_10s)
             ELSE IF count_ticks(interval, 5 * too_many_10s) <= target_count
             THEN Num(5 * too_many_10s)
             ELSE Num(too_many_10s * 10)

calc_tick_spacing_5_first(interval, target_count) ==
    IF target_count <= 1 \/ size(interval) = 0
    THEN NaN
    ELSE LET too_many_10s == pow_10_just_too_many(interval, target_count)
         IN  IF count_ticks(interval, 5 * too_many_10s) <= target_count
             THEN Num(5 * too_many_10s)
             ELSE IF count_ticks(interval, 2 * too_many_10s) <= target_count
             THEN Num(2 * too_many_10s)
             ELSE Num(too_many_10s * 10)

\* Gap between ticks: 1, 2 or 5 times a power of ten.
calc_tick_spacing(interval, target_count) ==
    IF target_count <= 1 \/ size(interval) = 0
    THEN NaN
    ELSE LET too_many_10s == pow_10_just_too_many(interval, target_count)
         IN  IF count_ticks(interval, 2 * too_many_10s) <= target_count
             THEN Num(2 * too_many_10s)
             ELSE IF count_ticks(interval, 5 * too_many_10s) <= target_count
             THEN Num(5 * too_many_10s)
             ELSE Num(too_many_10s * 10)

----------------------------------------------------------------------------
(* interval.rs: the constructors and methods of Interval.  Here the bounds *)
(* of an Interval are f64 values, so that the INVALID seed and non-finite  *)
(* arguments can be told apart from finite ones.                           *)

\* f64::is_finite
is_finite(x) == x.class = "finite"

\* The sign of an infinite f64, 0 for a finite one.
InfSign(x) == IF x.class = "inf" THEN x.v ELSE 0

\* x < y, x <= y, x > y, x >= y on f64: false when either side is NaN.
f64_lt(x, y) ==
    /\ ~is_nan(x) /\ ~is_nan(y)
    /\ \/ InfSign(x) < InfSign(y)
       \/ (is_finite(x) /\ is_finite(y) /\ x.v < y.v)
f64_le(x, y) == f64_lt(x, y) \/ (~is_nan(x) /\ x = y)
f64_gt(x, y) == f64_lt(y, x)
f64_ge(x, y) == f64_le(y, x)

\* The outcome of a call: a panic, or the returned value.
Panic == [panic |-> TRUE]
Ok(x) == [panic |-> FALSE, v |-> x]

\* Interval::INVALID, the value of Interval::default()
INVALID == Interval(Infinity, NegInfinity)

\* Interval::is_valid on f64 bounds
Interval_is_valid(self) ==
    is_finite(self.min) /\ is_finite(self.max) /\ f64_lt(self.min, self.max)

Interval_new_le(min, max) ==
    IF ~(is_finite(min) /\ is_finite(max) /\ f64_le(min, max))
    THEN Panic
    ELSE Ok(Interval(min, max))

\* Interval::new
Interval_new(min, max) ==
    IF ~(is_finite(min) /\ is_finite(max) /\ f64_lt(min, max))
    THEN Panic
    ELSE LET interval == Interval(min, max)
         IN  IF ~Interval_is_valid(interval) THEN Panic ELSE Ok(interval)

\* Interval::set_min
set_min(self, min) ==
    IF ~(is_finite(min) /\ f64_le(min, self.max))
    THEN Panic
    ELSE Ok([self EXCEPT !.min = min])

\* Interval::set_max
set_max(self, max) ==
    IF ~(is_finite(max) /\ f64_ge(max, self.min))
    THEN Panic
    ELSE Ok([self EXCEPT !.max = max])

\* Interval::extend_to
extend_to(self, val) ==
    IF ~is_finite(val) THEN Panic
    ELSE IF f64_lt(val, self.min) THEN Ok([self EXCEPT !.min = val])
    ELSE IF f64_gt(val, self.max) THEN Ok([self EXCEPT !.max = val])
    ELSE Ok(self)

\* Interval::include_zero
include_zero(self) == extend_to(self, Num(0))

\* The numerators over 2 * Unit of the bounds computed by scale_center for
\* finite bounds and a finite factor: (bound - center) * factor + center
\* with center = (max + min) * 0.5.
scale_center_num(bound, self, factor) ==
    (2 * bound.v - (self.max.v + self.min.v)) * factor.v
        + (self.max.v + self.min.v) * Unit

\* Interval::scale_center.  With a non-finite bound or factor the computed
\* bounds are NaN or infinite, which Interval::new rejects.
scale_center(self, factor) ==
    IF ~(is_finite(self.min) /\ is_finite(self.max) /\ is_finite(factor))
    THEN Panic
    ELSE Interval_new(Num(scale_center_num(self.min, self, factor) \div (2 * Unit)),
                      Num(scale_center_num(self.max, self, factor) \div (2 * Unit)))

\* The scale of to_rounded for a size > 0: with top the power of ten
\* 10^floor(log10(size)), 2/10, 5/10 or 10/10 of top as size / top is below
\* 2, below 5, or not.
to_rounded_scale(sz) ==
    LET top == Pow10Floor(sz, 1, 1)
    IN  IF sz < 2 * top THEN top \div 5
        ELSE IF sz < 5 * top THEN top \div 2
        ELSE top

\* Interval::to_rounded.  For a size that is 0, negative or not finite the
\* logarithm makes scale 0 or NaN and the bounds NaN, which Interval::new
\* rejects.
to_rounded(self) ==
    IF ~(is_finite(self.min) /\ is_finite(self.max) /\ f64_lt(self.min, self.max))
    THEN Panic
    ELSE LET scale == to_rounded_scale(self.max.v - self.min.v)
             min   == self.min.v - (self.min.v % scale)
             max   == (self.max.v + scale) - ((self.max.v + scale) % scale)
         IN  Interval_new(Num(min), Num(max))

\* impl Extend<f64> for Interval: extend_to for every item, in order.
RECURSIVE extend(_, _)
extend(self, iter) ==
    IF iter = <<>> THEN Ok(self)
    ELSE LET r == extend_to(self, Head(iter))
         IN  IF r.panic THEN Panic ELSE extend(r.v, Tail(iter))

\* impl FromIterator<f64> for Interval: the default value, extended.
from_iter(iter) == extend(INVALID, iter)

----------------------------------------------------------------------------
(* sequence.rs, ticker.rs: tickers *)

\* Lengths on an axis are whole numbers of PxUnit model units, so that the
\* quotients axis_len / n and the halves taken below are exact.
PxUnit == 2 * 840

\* (num / den) * x for an f64 x and a rational factor num / den >= 0.
f64_scale(num, den, x) ==
    IF x.class = "finite" THEN Num((num * x.v) \div den)
    ELSE IF x.class = "inf" /\ num # 0 THEN x
    ELSE NaN

f64_rsub_no_axis(a, x) ==
    IF x.class = "finite" THEN Num(0 - x.v)
    ELSE IF x.class = "inf" THEN [class |-> "inf", v |-> 0 - x.v]
    ELSE NaN

f64_rsub_swapped(a, x) ==
    IF x.class = "finite" THEN Num(x.v - a) ELSE x

\* a - x for a finite a and an f64 x.
f64_rsub(a, x) ==
    IF x.class = "finite" THEN Num(a - x.v)
    ELSE IF x.class = "inf" THEN [class |-> "inf", v |-> 0 - x.v]
    ELSE NaN

\* Categorical::new.  A Categorical is the list of its category texts; a text
\* is identified with the width, in whole pixels, the render context
\* measures for it.
Categorical(categories) == [kind |-> "categorical", categories |-> categories]

\* Numeric::from_interval_step; 0 < step < infinity is asserted.
Numeric(interval, step) ==
    [kind |-> "numeric", interval |-> interval, step |-> step]

\* Sequence::len
seq_len(sequence) ==
    IF sequence.kind = "categorical"
    THEN Len(sequence.categories)
    ELSE AsUsize((sequence.interval.max - sequence.interval.min)
                     \div sequence.step)

\* Sequence::get
seq_get(sequence, idx) ==
    IF sequence.kind = "categorical"
    THEN (IF idx < Len(sequence.categories)
          THEN Some(sequence.categories[idx + 1]) ELSE None)
    ELSE LET val == sequence.interval.min + idx * sequence.step
         IN  IF val > sequence.interval.max THEN None ELSE Some(val)

\* NumericIter: the items yielded from the iterator state `next` on.
RECURSIVE NumericIter(_, _)
NumericIter(inner, next) ==
    IF next > inner.interval.max THEN <<>>
    ELSE <<next>> \o NumericIter(inner, next + inner.step)

\* Sequence::iter, as the list of the items yielded.
seq_iter(sequence) ==
    IF sequence.kind = "categorical"
    THEN sequence.categories
    ELSE NumericIter(sequence, sequence.interval.min)

SpaceAroundTicker_zero_gap(sequence) ==
    [kind |-> "space_around", sequence |-> sequence, gap |-> Some(Num(0))]

\* SpaceAroundTicker::new
SpaceAroundTicker(sequence) ==
    [kind |-> "space_around", sequence |-> sequence, gap |-> None]

\* SpaceBetweenTicker::new
SpaceBetweenTicker(sequence) ==
    [kind |-> "space_between", sequence |-> sequence, gap |-> None]

\* IntervalTicker::new
IntervalTicker(interval) ==
    [kind |-> "interval", interval |-> interval,
     step_start_count |-> None, transform |-> None]

\* TickerExt::reverse
ReverseTicker(ticker) ==
    [kind |-> "reverse", ticker |-> ticker, axis_len |-> None]

\* Tick { pos, label }: pos is an f64.  The label of a sequence ticker is
\* the item, that of an IntervalTicker the tick's value.
Tick(pos, label) == [pos |-> pos, label |-> label]

\* f64 division axis_len / n of a length by a count.
DivByCount(axis_len, n) ==
    IF n = 0
    THEN (IF axis_len = 0 THEN NaN ELSE Infinity)
    ELSE Num(axis_len \div n)

\* SpaceBetweenTicker::layout: axis_len / (len - 1).max(1).  For len = 0 the
\* usize subtraction wraps to usize::MAX where overflow is not checked; the
\* quotient axis_len / usize::MAX is then below the resolution of the number
\* model for every axis length, and is only ever multiplied by idx = 0.
space_between_gap(axis_len, n) ==
    IF n = 0 THEN Num(0)
    ELSE DivByCount(axis_len, IF n - 1 > 1 THEN n - 1 ELSE 1)

\* IntervalTicker::layout.  step and start are f64; scale and translate are
\* kept as the exact fractions num / den.
interval_layout(t, axis_len) ==
    LET max_count == AsUsize(axis_len \div (60 * PxUnit))
        step      == calc_tick_spacing(t.interval, max_count)
        start     == IF is_nan(step) THEN NaN
                     ELSE Num(calc_next_tick(t.interval.min, step.v))
        count     == (IF is_nan(step) THEN 0
                      ELSE AsUsize((t.interval.max - start.v) \div step.v)) + 1
        scale     == [num |-> axis_len, den |-> size(t.interval)]
        translate == [num |-> (0 - t.interval.min) * axis_len,
                      den |-> size(t.interval)]
    IN  [t EXCEPT !.step_start_count = Some(<<step, start, count>>),
                  !.transform = Some(<<scale, translate>>)]

\* Whether Ticker::layout panics: the subtraction len - 1 of
\* SpaceBetweenTicker::layout overflows for len = 0, which panics in a build
\* with overflow checks.
RECURSIVE layout_panics(_, _)
layout_panics(t, overflow_checks) ==
    IF t.kind = "space_between" THEN overflow_checks /\ seq_len(t.sequence) = 0
    ELSE IF t.kind = "reverse" THEN layout_panics(t.ticker, overflow_checks)
    ELSE FALSE

space_around_layout_once(t, axis_len) ==
    IF t.gap.some THEN t
    ELSE [t EXCEPT !.gap = Some(DivByCount(axis_len, seq_len(t.sequence)))]

\* SpaceAroundTicker::layout: gap = axis_len / len
space_around_layout(t, axis_len) ==
    [t EXCEPT !.gap = Some(DivByCount(axis_len, seq_len(t.sequence)))]

\* Ticker::layout (when it does not panic)
RECURSIVE layout(_, _)
layout(t, axis_len) ==
    IF t.kind = "space_around"
    THEN space_around_layout(t, axis_len)
    ELSE IF t.kind = "space_between"
    THEN [t EXCEPT !.gap = Some(space_between_gap(axis_len, seq_len(t.sequence)))]
    ELSE IF t.kind = "interval"
    THEN interval_layout(t, axis_len)
    ELSE [t EXCEPT !.ticker = layout(t.ticker, axis_len),
                   !.axis_len = Some(axis_len)]

\* Ticker::len
RECURSIVE len(_)
len(t) ==
    IF t.kind \in {"space_around", "space_between"} THEN seq_len(t.sequence)
    ELSE IF t.kind = "interval" THEN t.step_start_count.v[3]
    ELSE len(t.ticker)

space_around_get_no_half(t, idx) ==
    LET itm == seq_get(t.sequence, idx)
    IN  IF ~itm.some THEN None
        ELSE Some(Tick(f64_scale(idx, 1, t.gap.v), itm.v))

\* SpaceAroundTicker::get: pos = (idx + 0.5) * gap
space_around_get(t, idx) ==
    LET itm == seq_get(t.sequence, idx)
    IN  IF ~itm.some THEN None
        ELSE Some(Tick(f64_scale(2 * idx + 1, 2, t.gap.v), itm.v))

\* SpaceBetweenTicker::get: pos = idx * gap
space_between_get(t, idx) ==
    LET itm == seq_get(t.sequence, idx)
    IN  IF ~itm.some THEN None
        ELSE Some(Tick(f64_scale(idx, 1, t.gap.v), itm.v))

\* IntervalTicker::get: val = idx * step + start, pos = val * scale + translate
interval_get(t, idx) ==
    LET step      == t.step_start_count.v[1]
        start     == t.step_start_count.v[2]
        count     == t.step_start_count.v[3]
        scale     == t.transform.v[1]
        translate == t.transform.v[2]
    IN  IF idx >= count THEN None
        ELSE LET val == IF is_nan(step) \/ is_nan(start) THEN NaN
                        ELSE Num(idx * step.v + start.v)
             IN  Some(Tick(IF is_nan(val) THEN NaN
                           ELSE Num((val.v * scale.num + translate.num)
                                        \div scale.den),
                           val))

\* Ticker::get (laid out tickers)
RECURSIVE get(_, _)
get(t, idx) ==
    IF t.kind = "space_around" THEN space_around_get(t, idx)
    ELSE IF t.kind = "space_between" THEN space_between_get(t, idx)
    ELSE IF t.kind = "interval" THEN interval_get(t, idx)
    ELSE LET tick == get(t.ticker, idx)
         IN  IF ~tick.some THEN None
             ELSE Some(Tick(f64_rsub(t.axis_len.v, tick.v.pos), tick.v.label))

\* Ticker::ticks, as the list of the ticks in iteration order.  The sequence
\* tickers enumerate Sequence::iter with the position formula of their get;
\* IntervalTicker (the trait's default) and ReverseTicker map get over
\* 0..len.
ticks(t) ==
    IF t.kind = "space_around"
    THEN LET items == seq_iter(t.sequence)
         IN  [k \in 1..Len(items) |->
                 Tick(f64_scale(2 * (k - 1) + 1, 2, t.gap.v), items[k])]
    ELSE IF t.kind = "space_between"
    THEN LET items == seq_iter(t.sequence)
         IN  [k \in 1..Len(items) |->
                 Tick(f64_scale(k - 1, 1, t.gap.v), items[k])]
    ELSE [k \in 1..len(t) |-> get(t, k - 1).v]

\* Whether Ticker::len panics: IntervalTicker expects its retained
\* step_start_count ("layout not called").
RECURSIVE len_panics(_)
len_panics(t) ==
    IF t.kind \in {"space_around", "space_between"} THEN FALSE
    ELSE IF t.kind = "interval" THEN ~t.step_start_count.some
    ELSE len_panics(t.ticker)

\* Whether Ticker::get(idx) panics.  A sequence ticker unwraps its gap once
\* the sequence has returned an item; IntervalTicker expects
\* step_start_count and unwraps transform before it looks at idx;
\* ReverseTicker expects its axis_len once the inner ticker has returned a
\* tick.
RECURSIVE get_panics(_, _)
get_panics(t, idx) ==
    IF t.kind \in {"space_around", "space_between"}
    THEN seq_get(t.sequence, idx).some /\ ~t.gap.some
    ELSE IF t.kind = "interval"
    THEN ~t.step_start_count.some \/ ~t.transform.some
    ELSE IF get_panics(t.ticker, idx) THEN TRUE
    ELSE get(t.ticker, idx).some /\ ~t.axis_len.some

\* Whether consuming Ticker::ticks() panics.  The iterator of a sequence
\* ticker unwraps the gap for each item it yields; the other tickers call
\* len() and unwrap get(idx) for each idx below it.
ticks_panics(t) ==
    IF t.kind \in {"space_around", "space_between"}
    THEN seq_iter(t.sequence) # <<>> /\ ~t.gap.some
    ELSE IF len_panics(t) THEN TRUE
    ELSE \E idx \in 0..(len(t) - 1) :
             IF get_panics(t, idx) THEN TRUE ELSE ~get(t, idx).some

----------------------------------------------------------------------------
(* axis.rs: Axis *)

\* The text layout built for a label: its measured Size.
TextLayout(label, line_height) ==
    [width |-> label * PxUnit, height |-> line_height * PxUnit]

\* Axis::ticks: self.ticker.ticks(self.axis_len)
axis_ticks(ticker, axis_len) == ticks(layout(ticker, axis_len))

\* self.ticker.len(self.axis_len)
axis_ticker_len(ticker, axis_len) == len(layout(ticker, axis_len))

\* Axis::build_layouts.  fails_at is the index of the tick whose text layout
\* the render context fails to build, if any: the `?` then returns the
\* error and leaves the layouts pushed so far in label_layouts.
try_build_layouts(label_layouts, ticker, axis_len, line_height, fails_at) ==
    IF label_layouts # <<>> \/ axis_ticker_len(ticker, axis_len) = 0
    THEN [ok |-> TRUE, label_layouts |-> label_layouts]
    ELSE LET tks == axis_ticks(ticker, axis_len)
         IN  IF fails_at.some /\ fails_at.v < Len(tks)
             THEN [ok |-> FALSE,
                   label_layouts |->
                       [k \in 1..fails_at.v |->
                           TextLayout(tks[k].label, line_height)]]
             ELSE [ok |-> TRUE,
                   label_layouts |->
                       [k \in 1..Len(tks) |->
                           TextLayout(tks[k].label, line_height)]]

\* Axis::build_layouts when every text layout builds without error
build_layouts(label_layouts, ticker, axis_len, line_height) ==
    try_build_layouts(label_layouts, ticker, axis_len, line_height,
                      None).label_layouts

extent_swapped(direction, layout_size) ==
    IF direction = "Vertical" THEN layout_size.width ELSE layout_size.height

\* The extent of a label along the axis: height on a vertical axis, width
\* on a horizontal one.
extent(direction, layout_size) ==
    IF direction = "Vertical" THEN layout_size.height ELSE layout_size.width

ge_strict(prev_end, x) == prev_end.class = "finite" /\ prev_end.v > x

\* prev_end >= x for prev_end = NEG_INFINITY or a finite value.
ge(prev_end, x) == prev_end.class = "finite" /\ prev_end.v >= x

\* The for loop of Axis::test_layouts_fit from position k of labels_to_draw.
RECURSIVE test_layouts_fit_loop(_, _, _, _, _, _)
test_layouts_fit_loop(k, prev_end, labels_to_draw, label_layouts, tks, direction) ==
    IF k > Len(labels_to_draw) THEN TRUE
    ELSE LET idx  == labels_to_draw[k]
             half == extent(direction, label_layouts[idx + 1]) \div 2
             tick == tks[idx + 1]
         IN  IF ge(prev_end, tick.pos.v - half) THEN FALSE
             ELSE test_layouts_fit_loop(k + 1, Num(tick.pos.v + half),
                      labels_to_draw, label_layouts, tks, direction)

\* Axis::test_layouts_fit
test_layouts_fit(labels_to_draw, label_layouts, tks, direction) ==
    test_layouts_fit_loop(1, NegInfinity, labels_to_draw, label_layouts, tks,
                          direction)

\* (0..n).step_by(step) collected into a Vec
step_by(n, step) ==
    IF n = 0 THEN <<>>
    ELSE [k \in 1..((n - 1) \div step + 1) |-> (k - 1) * step]

loop_bound_floor(n) == n \div 2

loop_bound_len(n) == n

\* (self.label_layouts.len() + 1) / 2
loop_bound(n) == (n + 1) \div 2

\* The while loop of Axis::fit_labels from `step`.
RECURSIVE fit_labels_loop(_, _, _, _)
fit_labels_loop(step, label_layouts, tks, direction) ==
    IF step <= loop_bound(Len(label_layouts))
    THEN LET labels_to_draw == step_by(Len(label_layouts), step)
         IN  IF test_layouts_fit(labels_to_draw, label_layouts, tks, direction)
             THEN labels_to_draw
             ELSE fit_labels_loop(step + 1, label_layouts, tks, direction)
    ELSE <<>>

\* Axis::fit_labels: the new labels_to_draw
fit_labels(label_layouts, tks, direction) ==
    fit_labels_loop(1, label_layouts, tks, direction)

must_layout_never(label_layouts, ticker, axis_len) == FALSE

\* The test at the head of Axis::draw: "Must call `layout` before `draw`".
must_layout(label_layouts, ticker, axis_len) ==
    label_layouts = <<>> /\ axis_ticker_len(ticker, axis_len) # 0

\* The position Axis::draw gives the text layout of a label, None in the
\* two arms that are `todo!()`.
label_point(direction, label_pos, tick, layout_size) ==
    IF direction = "Vertical" /\ label_pos = "Before"
    THEN Some([x |-> 0 - layout_size.width - 5 * PxUnit,
               y |-> tick.pos.v - layout_size.height \div 2])
    ELSE IF direction = "Horizontal" /\ label_pos = "After"
    THEN Some([x |-> tick.pos.v - layout_size.width \div 2,
               y |-> 5 * PxUnit])
    ELSE None

\* The label loop of Axis::draw from position k of labels_to_draw, `drawn`
\* being the labels drawn so far.
RECURSIVE draw_labels(_, _, _, _, _, _, _)
draw_labels(k, drawn, direction, label_pos, tks, label_layouts, labels_to_draw) ==
    IF k > Len(labels_to_draw) THEN [outcome |-> "drawn", drawn |-> drawn]
    ELSE LET idx == labels_to_draw[k]
         IN  IF idx >= Len(label_layouts)
             THEN [outcome |-> "panic: index out of bounds", drawn |-> drawn]
             ELSE IF idx >= Len(tks)
             THEN [outcome |-> "panic: unwrap on None", drawn |-> drawn]
             ELSE LET point == label_point(direction, label_pos, tks[idx + 1],
                                           label_layouts[idx + 1])
                  IN  IF ~point.some
                      THEN [outcome |-> "panic: not yet implemented",
                            drawn |-> drawn]
                      ELSE draw_labels(k + 1,
                               Append(drawn, [idx |-> idx, pos |-> point.v]),
                               direction, label_pos, tks, label_layouts,
                               labels_to_draw)

\* Axis::draw: how the call ends and the labels it has drawn.
draw(direction, label_pos, axis_len, ticker, label_layouts, labels_to_draw) ==
    IF must_layout(label_layouts, ticker, axis_len)
    THEN [outcome |-> "panic: must call layout", drawn |-> <<>>]
    ELSE draw_labels(1, <<>>, direction, label_pos,
                     axis_ticks(ticker, axis_len), label_layouts,
                     labels_to_draw)

----------------------------------------------------------------------------
(* histogram.rs: HistogramTrace *)

\* HistogramTrace::new(values)
HistogramTrace(values) ==
    [size |-> None, bar_width |-> None, values |-> values,
     positions |-> None, full_value |-> None]

\* values.iter().copied().reduce(f64::max).unwrap_or(1.)
RECURSIVE max_value(_, _)
max_value(values, k) ==
    IF k = Len(values) THEN values[k]
    ELSE LET rest == max_value(values, k + 1)
         IN  IF values[k] > rest THEN values[k] ELSE rest

full_value_of(values) ==
    IF values = <<>> THEN Unit ELSE max_value(values, 1)

\* bar_factor * bar_gap with bar_factor = 1 - atan(0.004 * bar_gap) * 2 / pi.
\* The arctangent has no exact value in the number model: the product is
\* kept as the bar_gap it is computed from.  It is strictly increasing in
\* bar_gap >= 0, so two widths are equal exactly when their gaps are; for
\* an infinite gap the factor is 0 and the product NaN.
bar_width_of(bar_gap) ==
    IF bar_gap.class = "finite"
    THEN [class |-> "finite", of_bar_gap |-> bar_gap.v]
    ELSE [class |-> "nan"]

\* (0..len).map(|cnt| gap * (0.5 + cnt)).collect()
positions_of(gap, n) ==
    [k \in 1..n |-> f64_scale(2 * (k - 1) + 1, 2, gap)]

\* <HistogramTrace as Trace>::layout(size, rc); it returns Ok(()).
trace_layout(trace, chart_size) ==
    LET n == Len(trace.values)
    IN  IF trace.size = Some(chart_size) THEN trace
        ELSE [trace EXCEPT
                 !.size = Some(chart_size),
                 !.full_value =
                     IF trace.full_value.some THEN @
                     ELSE Some(full_value_of(trace.values)),
                 !.bar_width =
                     IF trace.bar_width.some THEN @
                     ELSE Some(bar_width_of(DivByCount(chart_size.width, n))),
                 !.positions =
                     IF trace.positions.some THEN @
                     ELSE Some(positions_of(DivByCount(chart_size.width, n), n))]

----------------------------------------------------------------------------
(* SpecTick: the helpers applied to inputs drawn from bounded sets *)

\* Interval bounds of the exhaustive grid are the halves k * 0.5, k in
\* -MaxAbs..MaxAbs.
MaxAbs == 40

\* target_count ranges over 0..MaxTarget.
MaxTarget == 11

\* v of calc_next_tick / calc_prev_tick ranges over -MaxV..MaxV halves (0.5).
MaxV == 20

\* spacing of calc_next_tick / calc_prev_tick ranges over 1..MaxS halves.
MaxS == 12

\* The whole-number intervals of the crate's own tick tests.
TestIntervals ==
    { Interval(0, 100 * Unit), Interval(-9 * Unit, 109 * Unit),
      Interval(-9 * Unit, 99 * Unit), Interval(1 * Unit, 10 * Unit) }

\* Interval values a caller can hold: min < max from Interval::new, and
\* min = max after set_min / set_max, which accept equality.
TickIntervals ==
    { Interval(p[1] * Half, p[2] * Half) :
        p \in { q \in (-MaxAbs..MaxAbs) \X (-MaxAbs..MaxAbs) : q[1] <= q[2] } }
    \cup TestIntervals

\* The axis of an idle axis machine.
AxIdle ==
    /\ ax_direction = "Horizontal"
    /\ ax_axis_len = 0
    /\ ax_ticker = SpaceAroundTicker(Categorical(<<>>))
    /\ ax_label_layouts = <<>>
    /\ ax_labels_to_draw = <<>>
    /\ ax_line_height = 1
    /\ ax_op = "idle"

\* The arguments and results of an idle helper machine.
TkIdle ==
    /\ tk_call = "none"
    /\ tk_pc = "done"
    /\ tk_interval = Interval(0, Unit)
    /\ tk_target = 0
    /\ tk_spacing = NaN
    /\ tk_v = 0
    /\ tk_s = 1
    /\ tk_next = 0
    /\ tk_prev = 0
    /\ tk_too_many = None
    /\ tk_step = 1
    /\ tk_count = 0
    /\ tk_count_slow = 0

\* The interval of an idle interval machine.
IvIdle ==
    /\ iv_status = "idle"
    /\ iv_ctor = "idle"
    /\ iv_interval = Interval(Num(0), Num(Unit))
    /\ iv_op = "idle"
    /\ iv_args = <<>>

\* The ticker of an idle ticker machine.
TtIdle ==
    /\ tt_pc = "idle"
    /\ tt_ticker = SpaceAroundTicker(Categorical(<<>>))
    /\ tt_axis_len = 0
    /\ tt_overflow_checks = FALSE
    /\ tt_op = "idle"
    /\ tt_idx = 0
    /\ tt_got = None
    /\ tt_ticks = <<>>
    /\ tt_relayout = "none"

\* The draw record of an idle axis machine.
DrIdle ==
    /\ dr_label_pos = "After"
    /\ dr_layout = "none"
    /\ dr_draw = "none"
    /\ dr_drawn = <<>>

\* The trace of an idle histogram machine.
HsIdle ==
    /\ hs_values = <<>>
    /\ hs_size = None
    /\ hs_bar_width = None
    /\ hs_positions = None
    /\ hs_full_value = None
    /\ hs_default = TRUE
    /\ hs_op = "idle"

TickInit ==
    /\ AxIdle
    /\ IvIdle
    /\ TtIdle
    /\ DrIdle
    /\ HsIdle
    /\ tk_pc = "call"
    /\ tk_spacing = NaN
    /\ tk_next = 0
    /\ tk_prev = 0
    /\ tk_too_many = None
    /\ tk_count = 0
    /\ tk_count_slow = 0
    /\ \/ /\ tk_call = "spacing"
          /\ tk_interval \in TickIntervals
          /\ tk_target \in 0..MaxTarget
          /\ tk_v = 0
          /\ tk_s = 1
          /\ tk_step = 1
       \/ /\ tk_call = "ticks"
          /\ tk_interval = Interval(0, Unit)
          /\ tk_target = 0
          /\ tk_v \in { k * Half : k \in -MaxV..MaxV }
          /\ tk_s \in { k * Half : k \in 1..MaxS }
          /\ tk_step = 1
       \/ /\ tk_call = "count"
          /\ tk_interval \in TickIntervals
          /\ tk_target = 0
          /\ tk_v = 0
          /\ tk_s = 1
          /\ tk_step \in { k * Half : k \in 1..MaxS }

\* A call of calc_tick_spacing(tk_interval, tk_target); too_many_10s is
\* computed after the early return only.
CalcTickSpacing ==
    /\ tk_pc = "call"
    /\ tk_call = "spacing"
    /\ tk_spacing' = calc_tick_spacing(tk_interval, tk_target)
    /\ tk_too_many' =
           IF tk_target <= 1 \/ size(tk_interval) = 0
           THEN None
           ELSE Some(pow_10_just_too_many(tk_interval, tk_target))
    /\ tk_pc' = "done"
    /\ UNCHANGED <<tk_call, tk_interval, tk_target, tk_v, tk_s, tk_next, tk_prev>>
    /\ UNCHANGED <<tk_step, tk_count, tk_count_slow>>
    /\ UNCHANGED <<ax_vars, iv_vars, tt_vars, dr_vars, hs_vars>>

\* A call of calc_next_tick(tk_v, tk_s) and of calc_prev_tick(tk_v, tk_s).
CalcTicks ==
    /\ tk_pc = "call"
    /\ tk_call = "ticks"
    /\ tk_next' = calc_next_tick(tk_v, tk_s)
    /\ tk_prev' = calc_prev_tick(tk_v, tk_s)
    /\ tk_pc' = "done"
    /\ UNCHANGED <<tk_call, tk_interval, tk_target, tk_spacing, tk_v, tk_s>>
    /\ UNCHANGED <<tk_too_many, tk_step, tk_count, tk_count_slow>>
    /\ UNCHANGED <<ax_vars, iv_vars, tt_vars, dr_vars, hs_vars>>

\* A call of count_ticks(tk_interval, tk_step) and of
\* count_ticks_slow(tk_interval, tk_step).
CountTicks ==
    /\ tk_pc = "call"
    /\ tk_call = "count"
    /\ tk_count' = count_ticks(tk_interval, tk_step)
    /\ tk_count_slow' = count_ticks_slow(tk_interval, tk_step)
    /\ tk_pc' = "done"
    /\ UNCHANGED <<tk_call, tk_interval, tk_target, tk_spacing, tk_v, tk_s>>
    /\ UNCHANGED <<tk_next, tk_prev, tk_too_many, tk_step>>
    /\ UNCHANGED <<ax_vars, iv_vars, tt_vars, dr_vars, hs_vars>>

TickNext == CalcTickSpacing \/ CalcTicks \/ CountTicks

SpecTick == TickInit /\ [][TickNext]_vars

----------------------------------------------------------------------------
(* Spec: an Axis over a categorical ticker, laid out and given new tickers *)

\* A Categorical of the exhaustive universe has 0..MaxCategories categories.
MaxCategories == 3

\* Axis lengths are the whole pixels 0..MaxLen.
MaxLen == 15

\* The line height of the render context's font is 1..MaxLineHeight pixels.
MaxLineHeight == 2

\* The number of categories of the seven-label axis.
SevenCategories == 7

\* The widths, in pixels, the render context measures for the category texts.
LabelWidths == {1, 2}

\* Category lists: every list of up to MaxCategories texts, and the lists of
\* seven texts of one width.
CategoryLists ==
    UNION { [1..n -> LabelWidths] : n \in 0..MaxCategories }
    \cup { [k \in 1..SevenCategories |-> w] : w \in LabelWidths }

\* The tickers an axis is built over: a space-around ticker, or one reversed.
Tickers ==
    { SpaceAroundTicker(Categorical(c)) : c \in CategoryLists }
    \cup { ReverseTicker(SpaceAroundTicker(Categorical(c))) : c \in CategoryLists }

\* Axis::new(direction, label_pos, axis_len, ticker); axis_len >= 0 is asserted.
Init ==
    /\ TkIdle
    /\ IvIdle
    /\ TtIdle
    /\ DrIdle
    /\ HsIdle
    /\ ax_direction \in {"Vertical", "Horizontal"}
    /\ ax_axis_len \in { l * PxUnit : l \in 0..MaxLen }
    /\ ax_ticker \in Tickers
    /\ ax_line_height \in 1..MaxLineHeight
    /\ ax_label_layouts = <<>>
    /\ ax_labels_to_draw = <<>>
    /\ ax_op = "new"

\* Axis::layout: build_layouts, then fit_labels.
Layout ==
    LET built == build_layouts(ax_label_layouts, ax_ticker, ax_axis_len,
                               ax_line_height)
    IN  /\ ax_label_layouts' = built
        /\ ax_labels_to_draw' =
               fit_labels(built, axis_ticks(ax_ticker, ax_axis_len), ax_direction)
        /\ ax_op' = "layout"
        /\ UNCHANGED <<ax_direction, ax_axis_len, ax_ticker, ax_line_height>>
        /\ UNCHANGED <<tk_vars, iv_vars, tt_vars, dr_vars, hs_vars>>

\* Axis::set_ticker(new_ticker): clears label_layouts, keeps labels_to_draw.
SetTicker ==
    \E new_ticker \in Tickers :
        /\ ax_ticker' = new_ticker
        /\ ax_label_layouts' = <<>>
        /\ ax_op' = "set_ticker"
        /\ UNCHANGED <<ax_direction, ax_axis_len, ax_labels_to_draw, ax_line_height>>
        /\ UNCHANGED <<tk_vars, iv_vars, tt_vars, dr_vars, hs_vars>>

Next == Layout \/ SetTicker

Spec == Init /\ [][Next]_vars

----------------------------------------------------------------------------
(* SpecDraw: an Axis is laid out by a render context that can fail to     *)
(* build a text layout, given new tickers, and drawn                      *)

\* The tickers of the drawn axis: space-around tickers over up to
\* MaxCategories categories.
DrawTickers ==
    { SpaceAroundTicker(Categorical(c)) :
        c \in UNION { [1..n -> LabelWidths] : n \in 0..MaxCategories } }

\* Axis::new(direction, label_pos, axis_len, ticker)
DrawInit ==
    /\ TkIdle
    /\ IvIdle
    /\ TtIdle
    /\ HsIdle
    /\ ax_direction \in {"Vertical", "Horizontal"}
    /\ dr_label_pos \in {"Before", "After"}
    /\ ax_axis_len \in { l * PxUnit : l \in 0..MaxLen }
    /\ ax_ticker \in DrawTickers
    /\ ax_line_height \in 1..MaxLineHeight
    /\ ax_label_layouts = <<>>
    /\ ax_labels_to_draw = <<>>
    /\ ax_op = "new"
    /\ dr_layout = "none"
    /\ dr_draw = "none"
    /\ dr_drawn = <<>>

\* A call that panicked ended the program.
Running == dr_draw \in {"none", "drawn"}

\* Axis::layout(ctx): build_layouts, returning its error if it has one, then
\* fit_labels.
AxisLayout ==
    /\ Running
    /\ \E fails_at \in {None} \cup { Some(k) : k \in 0..(MaxCategories - 1) } :
           LET built == try_build_layouts(ax_label_layouts, ax_ticker,
                                          ax_axis_len, ax_line_height, fails_at)
           IN  /\ ax_label_layouts' = built.label_layouts
               /\ IF built.ok
                  THEN /\ ax_labels_to_draw' =
                              fit_labels(built.label_layouts,
                                         axis_ticks(ax_ticker, ax_axis_len),
                                         ax_direction)
                       /\ dr_layout' = "Ok"
                  ELSE /\ UNCHANGED ax_labels_to_draw
                       /\ dr_layout' = "Err"
    /\ ax_op' = "layout"
    /\ dr_draw' = "none"
    /\ dr_drawn' = <<>>
    /\ UNCHANGED <<ax_direction, ax_axis_len, ax_ticker, ax_line_height,
                   dr_label_pos>>
    /\ UNCHANGED <<tk_vars, iv_vars, tt_vars, hs_vars>>

\* Axis::set_ticker(new_ticker)
AxisSetTicker ==
    /\ Running
    /\ \E new_ticker \in DrawTickers :
           ax_ticker' = new_ticker
    /\ ax_label_layouts' = <<>>
    /\ ax_op' = "set_ticker"
    /\ dr_layout' = "none"
    /\ dr_draw' = "none"
    /\ dr_drawn' = <<>>
    /\ UNCHANGED <<ax_direction, ax_axis_len, ax_labels_to_draw, ax_line_height,
                   dr_label_pos>>
    /\ UNCHANGED <<tk_vars, iv_vars, tt_vars, hs_vars>>

\* Axis::draw(pos, ctx)
AxisDraw ==
    /\ Running
    /\ LET done == draw(ax_direction, dr_label_pos, ax_axis_len, ax_ticker,
                        ax_label_layouts, ax_labels_to_draw)
       IN  /\ dr_draw' = done.outcome
           /\ dr_drawn' = done.drawn
    /\ ax_op' = "draw"
    /\ UNCHANGED <<ax_direction, ax_axis_len, ax_ticker, ax_label_layouts,
                   ax_labels_to_draw, ax_line_height, dr_label_pos, dr_layout>>
    /\ UNCHANGED <<tk_vars, iv_vars, tt_vars, hs_vars>>

DrawNext == AxisLayout \/ AxisSetTicker \/ AxisDraw

SpecDraw == DrawInit /\ [][DrawNext]_vars

----------------------------------------------------------------------------
(* SpecHistogram: a HistogramTrace is laid out at one size after another *)

\* A trace has 0..MaxBars values.
MaxBars == 3

\* Chart widths are 0..MaxWidthSteps steps of 30 pixels, chart heights
\* 1..MaxHeightSteps such steps.
MaxWidthSteps == 4
MaxHeightSteps == 2

\* The values of a bar.
BarValues == {Unit, 2 * Unit}

\* The sizes passed to layout.
ChartSizes ==
    { [width |-> w * 30 * PxUnit, height |-> h * 30 * PxUnit] :
        w \in 0..MaxWidthSteps, h \in 1..MaxHeightSteps }

\* The trace held in the hs_ variables.
TheTrace ==
    [size |-> hs_size, bar_width |-> hs_bar_width, values |-> hs_values,
     positions |-> hs_positions, full_value |-> hs_full_value]

\* The hs_ variables hold `trace` in the next state.
TraceBecomes(trace) ==
    /\ hs_size' = trace.size
    /\ hs_bar_width' = trace.bar_width
    /\ hs_values' = trace.values
    /\ hs_positions' = trace.positions
    /\ hs_full_value' = trace.full_value

\* HistogramTrace::new(values)
HistogramInit ==
    /\ TkIdle
    /\ AxIdle
    /\ IvIdle
    /\ TtIdle
    /\ DrIdle
    /\ \E values \in UNION { [1..n -> BarValues] : n \in 0..MaxBars } :
           LET trace == HistogramTrace(values)
           IN  /\ hs_size = trace.size
               /\ hs_bar_width = trace.bar_width
               /\ hs_values = trace.values
               /\ hs_positions = trace.positions
               /\ hs_full_value = trace.full_value
    /\ hs_default = TRUE
    /\ hs_op = "new"

\* <HistogramTrace as Trace>::layout(size, rc)
TraceLayout ==
    /\ \E chart_size \in ChartSizes :
           TraceBecomes(trace_layout(TheTrace, chart_size))
    /\ hs_op' = "layout"
    /\ UNCHANGED hs_default
    /\ UNCHANGED <<tk_vars, ax_vars, iv_vars, tt_vars, dr_vars>>

\* HistogramTrace::set_positions(positions): as many positions as values
\* is asserted.  The caller's positions are multiples of 7 pixels.
SetPositions ==
    /\ hs_default
    /\ hs_positions' = Some([k \in 1..Len(hs_values) |-> Num(7 * k * PxUnit)])
    /\ hs_default' = FALSE
    /\ hs_op' = "set_positions"
    /\ UNCHANGED <<hs_values, hs_size, hs_bar_width, hs_full_value>>
    /\ UNCHANGED <<tk_vars, ax_vars, iv_vars, tt_vars, dr_vars>>

HistogramNext == TraceLayout \/ SetPositions

SpecHistogram == HistogramInit /\ [][HistogramNext]_vars

----------------------------------------------------------------------------
(* SpecInterval: an Interval is constructed, then its methods are called *)

\* Finite arguments are the whole numbers -MaxIv..MaxIv.
MaxIv == 3

\* Interval::from_iter folds up to MaxItems values.
MaxItems == 3

\* The f64 arguments of the calls.
IvArgs ==
    { Num(k * Unit) : k \in -MaxIv..MaxIv } \cup { NaN, Infinity, NegInfinity }

\* The factors of scale_center.
Factors == { Num(k * Unit) : k \in -1..2 } \cup { NaN }

\* The machine follows intervals whose finite bounds are within IvCap.
IvCap == (MaxIv + 1) * Unit

WithinCap(interval) ==
    /\ is_finite(interval.min) => (interval.min.v >= 0 - IvCap /\ interval.min.v <= IvCap)
    /\ is_finite(interval.max) => (interval.max.v >= 0 - IvCap /\ interval.max.v <= IvCap)

IvInit ==
    /\ TkIdle
    /\ AxIdle
    /\ TtIdle
    /\ DrIdle
    /\ HsIdle
    /\ iv_status = "none"
    /\ iv_ctor = "none"
    /\ iv_interval = INVALID
    /\ iv_op = "none"
    /\ iv_args = <<>>

\* The caller's state after a constructor call with outcome r.
Constructed(ctor, args, r) ==
    /\ iv_status' = IF r.panic THEN "panic" ELSE "ok"
    /\ iv_interval' = IF r.panic THEN iv_interval ELSE r.v
    /\ iv_ctor' = ctor
    /\ iv_op' = ctor
    /\ iv_args' = args
    /\ UNCHANGED <<tk_vars, ax_vars, tt_vars, dr_vars, hs_vars>>

\* The caller's state after a method call with outcome r.
Called(op, args, r) ==
    /\ iv_status = "ok"
    /\ IF r.panic THEN TRUE ELSE WithinCap(r.v)
    /\ iv_status' = IF r.panic THEN "panic" ELSE "ok"
    /\ iv_interval' = IF r.panic THEN iv_interval ELSE r.v
    /\ iv_op' = op
    /\ iv_args' = args
    /\ UNCHANGED iv_ctor
    /\ UNCHANGED <<tk_vars, ax_vars, tt_vars, dr_vars, hs_vars>>

\* Interval::new(min, max)
New ==
    /\ iv_status = "none"
    /\ \E min \in IvArgs, max \in IvArgs :
           Constructed("new", <<min, max>>, Interval_new(min, max))

\* Interval::from_iter(iter)
FromIter ==
    /\ iv_status = "none"
    /\ \E n \in 0..MaxItems :
           \E iter \in [1..n -> IvArgs] :
               Constructed("from_iter", iter, from_iter(iter))

SetMin ==
    \E min \in IvArgs : Called("set_min", <<min>>, set_min(iv_interval, min))

SetMax ==
    \E max \in IvArgs : Called("set_max", <<max>>, set_max(iv_interval, max))

ExtendTo ==
    \E val \in IvArgs : Called("extend_to", <<val>>, extend_to(iv_interval, val))

IncludeZero == Called("include_zero", <<>>, include_zero(iv_interval))

\* scale_center, for bounds and factors whose results are exact in the
\* number model.
ScaleCenter ==
    \E factor \in Factors :
        /\ (is_finite(iv_interval.min) /\ is_finite(iv_interval.max) /\ is_finite(factor)) =>
               /\ scale_center_num(iv_interval.min, iv_interval, factor) % (2 * Unit) = 0
               /\ scale_center_num(iv_interval.max, iv_interval, factor) % (2 * Unit) = 0
        /\ Called("scale_center", <<factor>>, scale_center(iv_interval, factor))

\* to_rounded, for a size of 0 or of at least 1.0: the scale is then at
\* least 0.2 and exact in the number model.
ToRounded ==
    /\ (is_finite(iv_interval.min) /\ is_finite(iv_interval.max)) =>
           (iv_interval.max.v - iv_interval.min.v = 0
            \/ iv_interval.max.v - iv_interval.min.v >= Unit)
    /\ Called("to_rounded", <<>>, to_rounded(iv_interval))

IvNext ==
    \/ New
    \/ FromIter
    \/ SetMin
    \/ SetMax
    \/ ExtendTo
    \/ IncludeZero
    \/ ScaleCenter
    \/ ToRounded

SpecInterval == IvInit /\ [][IvNext]_vars

----------------------------------------------------------------------------
(* SpecTicker: a ticker of any variant is laid out and asked for its ticks *)

\* A Categorical of the ticker machine has 0..MaxSlots categories.
MaxSlots == 4

\* A Numeric runs over min..max with whole bounds 0 <= min < max <= MaxNumeric
\* and a step of 1..MaxStepHalves halves (0.5).
MaxNumeric == 2
MaxStepHalves == 3

\* An IntervalTicker runs over min..max with whole bounds
\* -MaxTickerBound <= min < max <= MaxTickerBound.
MaxTickerBound == 2

\* Axis lengths are 0..MaxLenSteps steps of 30 pixels.
MaxLenSteps == 8

\* The axis lengths of the ticker machine.
TickerLens == { k * 30 * PxUnit : k \in 0..MaxLenSteps }

\* The sequences: lists of categories (all of one text), and numeric ranges.
Sequences ==
    { Categorical([k \in 1..n |-> 1]) : n \in 0..MaxSlots }
    \cup { Numeric(Interval(q[1] * Unit, q[2] * Unit), h * Half) :
             q \in { r \in (0..MaxNumeric) \X (0..MaxNumeric) : r[1] < r[2] },
             h \in 1..MaxStepHalves }

\* The tickers: sequence.space_around_ticker(), sequence.space_between_ticker()
\* and interval.ticker(), each also reversed.
PlainTickers ==
    { SpaceAroundTicker(sq) : sq \in Sequences }
    \cup { SpaceBetweenTicker(sq) : sq \in Sequences }
    \cup { IntervalTicker(Interval(q[1] * Unit, q[2] * Unit)) :
             q \in { r \in (-MaxTickerBound..MaxTickerBound)
                             \X (-MaxTickerBound..MaxTickerBound) : r[1] < r[2] } }

\* A ticker is wrapped by at most MaxReverse ReverseTickers.
MaxReverse == 2

\* The number of ReverseTicker wrappers of a ticker.
RECURSIVE ReverseDepth(_)
ReverseDepth(t) == IF t.kind = "reverse" THEN 1 + ReverseDepth(t.ticker) ELSE 0

TickerInit ==
    /\ TkIdle
    /\ AxIdle
    /\ IvIdle
    /\ DrIdle
    /\ HsIdle
    /\ tt_pc = "new"
    /\ tt_ticker \in PlainTickers
    /\ tt_axis_len = 0
    /\ tt_overflow_checks \in BOOLEAN
    /\ tt_op = "new"
    /\ tt_idx = 0
    /\ tt_got = None
    /\ tt_ticks = <<>>
    /\ tt_relayout = "none"

\* Ticker::layout(axis_len)
TickerLayout ==
    \E axis_len \in TickerLens :
        /\ tt_pc \in {"new", "laid_out"}
        /\ IF layout_panics(tt_ticker, tt_overflow_checks)
           THEN tt_pc' = "panic" /\ UNCHANGED tt_ticker
           ELSE tt_pc' = "laid_out" /\ tt_ticker' = layout(tt_ticker, axis_len)
        /\ tt_axis_len' = axis_len
        /\ tt_op' = "layout"
        /\ tt_idx' = 0
        /\ tt_got' = None
        /\ tt_ticks' = <<>>
        /\ tt_relayout' = IF tt_relayout = "none" THEN "first"
                          ELSE IF axis_len = tt_axis_len THEN "same"
                          ELSE "other"
        /\ UNCHANGED tt_overflow_checks
        /\ UNCHANGED <<tk_vars, ax_vars, iv_vars, dr_vars, hs_vars>>

\* ticker.reverse(): the ticker, laid out or not, moves into a new
\* ReverseTicker on which layout has not been called.
TickerReverse ==
    /\ tt_pc \in {"new", "laid_out"}
    /\ ReverseDepth(tt_ticker) < MaxReverse
    /\ tt_ticker' = ReverseTicker(tt_ticker)
    /\ tt_pc' = "new"
    /\ tt_op' = "reverse"
    /\ tt_idx' = 0
    /\ tt_got' = None
    /\ tt_ticks' = <<>>
    /\ tt_relayout' = "none"
    /\ UNCHANGED <<tt_axis_len, tt_overflow_checks>>
    /\ UNCHANGED <<tk_vars, ax_vars, iv_vars, dr_vars, hs_vars>>

\* The indices get is called with: up to two beyond len, or 0..2 while len
\* itself panics.
GetIndices(t) == 0..((IF len_panics(t) THEN 0 ELSE len(t)) + 2)

\* Ticker::get(idx)
TickerGet ==
    /\ tt_pc \in {"new", "laid_out"}
    /\ \E idx \in GetIndices(tt_ticker) :
           /\ tt_op' = "get"
           /\ tt_idx' = idx
           /\ IF get_panics(tt_ticker, idx)
              THEN tt_pc' = "panic" /\ tt_got' = None
              ELSE tt_pc' = tt_pc /\ tt_got' = get(tt_ticker, idx)
    /\ UNCHANGED <<tt_ticker, tt_axis_len, tt_overflow_checks, tt_ticks,
                   tt_relayout>>
    /\ UNCHANGED <<tk_vars, ax_vars, iv_vars, dr_vars, hs_vars>>

\* Ticker::ticks(), collected
TickerTicks ==
    /\ tt_pc \in {"new", "laid_out"}
    /\ tt_op' = "ticks"
    /\ IF ticks_panics(tt_ticker)
       THEN tt_pc' = "panic" /\ tt_ticks' = <<>>
       ELSE tt_pc' = tt_pc /\ tt_ticks' = ticks(tt_ticker)
    /\ UNCHANGED <<tt_ticker, tt_axis_len, tt_overflow_checks, tt_idx, tt_got,
                   tt_relayout>>
    /\ UNCHANGED <<tk_vars, ax_vars, iv_vars, dr_vars, hs_vars>>

TickerNext == TickerLayout \/ TickerReverse \/ TickerGet \/ TickerTicks

SpecTicker == TickerInit /\ [][TickerNext]_vars

----------------------------------------------------------------------------
(* Properties of the tick spacing helpers *)

\* x is 10^k model units for some k >= 0.
RECURSIVE IsPow10(_)
IsPow10(x) == x = 1 \/ (x > 1 /\ x % 10 = 0 /\ IsPow10(x \div 10))

\* x is 1, 2 or 5 times a power of ten.
IsNice(x) ==
    \/ IsPow10(x)
    \/ (x % 2 = 0 /\ IsPow10(x \div 2))
    \/ (x % 5 = 0 /\ IsPow10(x \div 5))

\* floor(a / b) and ceil(a / b) for b > 0.
Floor(a, b) == (a - (a % b)) \div b
Ceil(a, b) == 0 - Floor(0 - a, b)

\* The number of multiples of s in [lo, hi].
MultiplesIn(lo, hi, s) ==
    LET k == Floor(hi, s) - Ceil(lo, s) + 1 IN IF k < 0 THEN 0 ELSE k

SpacingDone == tk_pc = "done" /\ tk_call = "spacing"

TicksDone == tk_pc = "done" /\ tk_call = "ticks"

\* C1: for a valid interval and target_count >= 2 the returned spacing is
\* 1, 2 or 5 times a power of ten, and at most target_count of its multiples
\* lie in [min, max].
C1_NiceSpacingWithinTarget ==
    (SpacingDone /\ is_valid(tk_interval) /\ tk_target >= 2) =>
        /\ ~is_nan(tk_spacing)
        /\ IsNice(tk_spacing.v)
        /\ MultiplesIn(tk_interval.min, tk_interval.max, tk_spacing.v) <= tk_target

\* A misaligned interval for which the spacing 5 * 10^k was returned.
C1_Witness ==
    /\ SpacingDone /\ is_valid(tk_interval) /\ tk_target >= 2
    /\ tk_interval.min % (10 * Unit) # 0
    /\ ~is_nan(tk_spacing) /\ tk_spacing.v = 5 * Unit

\* C2: for a valid interval and target_count >= 2, strictly more than
\* target_count multiples of one tenth of the returned spacing lie in
\* [min, max].  (Multiples of s/10 in [min, max] are the multiples of s in
\* [10 min, 10 max].)
C2_TenthSpacingTooMany ==
    (SpacingDone /\ is_valid(tk_interval) /\ tk_target >= 2) =>
        /\ ~is_nan(tk_spacing)
        /\ MultiplesIn(10 * tk_interval.min, 10 * tk_interval.max, tk_spacing.v)
               > tk_target

\* The returned spacing is ten times the power of ten, reached through the
\* step down to the next smaller power.
C2_Witness ==
    /\ SpacingDone /\ is_valid(tk_interval) /\ tk_target >= 2
    /\ tk_interval = Interval(-9 * Unit, 99 * Unit) /\ tk_target = 10
    /\ tk_spacing = Num(10 * Unit)

C4_Original ==
    (SpacingDone /\ tk_interval = Interval(0, 100 * Unit) /\ tk_target = 10) =>
        tk_spacing = Num(10 * Unit)

\* C4 amended: calc_tick_spacing(Interval::new(0.0, 100.0), 10) is 20.0;
\* spacing 10.0 would give the 11 ticks 0, 10, ..., 100.
C4_SpacingIsTwenty ==
    (SpacingDone /\ tk_interval = Interval(0, 100 * Unit) /\ tk_target = 10) =>
        /\ tk_spacing = Num(20 * Unit)
        /\ MultiplesIn(0, 100 * Unit, 10 * Unit) = 11

C4_Witness ==
    SpacingDone /\ tk_interval = Interval(0, 100 * Unit) /\ tk_target = 10

\* C5: calc_next_tick(v, s) is the smallest multiple of s that is >= v and
\* calc_prev_tick(v, s) the largest multiple of s that is <= v, for v of
\* either sign; with the three cases of the crate's tests.
C5_NextPrevTick ==
    TicksDone =>
        /\ tk_next % tk_s = 0 /\ tk_next >= tk_v /\ tk_next - tk_s < tk_v
        /\ tk_prev % tk_s = 0 /\ tk_prev <= tk_v /\ tk_prev + tk_s > tk_v
        /\ (tk_v % tk_s = 0) => (tk_next = tk_v /\ tk_prev = tk_v)
        /\ (tk_v = Unit /\ tk_s = 2 * Unit) => (tk_prev = 0 /\ tk_next = 2 * Unit)
        /\ (tk_v = 0 - Half /\ tk_s = Unit) => tk_prev = 0 - Unit

\* calc_prev_tick(-0.5, 1.0) = -1.0 and calc_next_tick(-0.5, 1.0) = 0.0.
C5_Witness ==
    /\ TicksDone /\ tk_v = 0 - Half /\ tk_s = Unit
    /\ tk_prev = 0 - Unit /\ tk_next = 0


CountDone == tk_pc = "done" /\ tk_call = "count"

\* C27: for a valid interval and a step > 0, count_ticks and
\* count_ticks_slow return the same count, which is 0 when no multiple of
\* the step lies in [min, max].
C27_ClosedFormEqualsIterative ==
    (CountDone /\ is_valid(tk_interval) /\ tk_step > 0) =>
        /\ tk_count = tk_count_slow
        /\ (MultiplesIn(tk_interval.min, tk_interval.max, tk_step) = 0
                => tk_count = 0)

\* C28: for a valid interval and target_count >= 2, too_many_10s is a power
\* of ten p with strictly more than target_count multiples of p in
\* [min, max] and at most target_count multiples of 10 p.
C28_PowerOfTenJustTooMany ==
    (SpacingDone /\ is_valid(tk_interval) /\ tk_target >= 2) =>
        /\ tk_too_many.some
        /\ IsPow10(tk_too_many.v)
        /\ MultiplesIn(tk_interval.min, tk_interval.max, tk_too_many.v)
               > tk_target
        /\ MultiplesIn(tk_interval.min, tk_interval.max, 10 * tk_too_many.v)
               <= tk_target

\* The interval -9..99 with ten ticks: the first guess 10 leaves too few
\* ticks between the aligned ends, and the next smaller power 1 is returned.
C28_Witness ==
    /\ SpacingDone
    /\ tk_interval = Interval(-9 * Unit, 99 * Unit) /\ tk_target = 10
    /\ tk_too_many = Some(Unit)

----------------------------------------------------------------------------
(* Properties of label fitting *)

\* fit_labels has run on the current ticker and labels.
LaidOut == ax_op = "layout"

\* The number of candidate labels.
NumLabels == Len(ax_label_layouts)

\* Position of tick i (from 0) of the axis.
TickPos(i) == axis_ticks(ax_ticker, ax_axis_len)[i + 1].pos.v

\* Half the extent of label i along the axis direction.
HalfExtent(i) ==
    IF ax_direction = "Vertical"
    THEN ax_label_layouts[i + 1].height \div 2
    ELSE ax_label_layouts[i + 1].width \div 2

LeadingEdge(i) == TickPos(i) - HalfExtent(i)
TrailingEdge(i) == TickPos(i) + HalfExtent(i)

\* The indices of labels_to_draw.
Selected == { ax_labels_to_draw[k] : k \in 1..Len(ax_labels_to_draw) }

\* labels_to_draw lists its indices in increasing order, each once.
SelectedInOrder ==
    \A k \in 2..Len(ax_labels_to_draw) :
        ax_labels_to_draw[k - 1] < ax_labels_to_draw[k]

\* The indices 0, s, 2s, ... below NumLabels.
Stride(s) == { i \in 0..(NumLabels - 1) : i % s = 0 }

\* Walking the indices of I upwards, every label starts strictly after the
\* end of the one before it.
NoOverlapInOrder(I) ==
    \A i, j \in I :
        (i < j /\ ~(\E m \in I : i < m /\ m < j)) =>
            LeadingEdge(j) > TrailingEdge(i)

\* ceil(NumLabels / 2): the least c with 2c >= NumLabels.
HalfRoundedUp == CHOOSE c \in 0..NumLabels : 2 * c >= NumLabels /\ 2 * (c - 1) < NumLabels

\* The steps of the search range whose subset passes the walk.
FittingSteps == { s \in 1..HalfRoundedUp : NoOverlapInOrder(Stride(s)) }

\* C6: after fit_labels, each selected label after the first has its leading
\* edge strictly beyond the trailing edge of the previously selected label.
C6_SelectedLabelsApart ==
    LaidOut =>
        \A k \in 2..Len(ax_labels_to_draw) :
            LeadingEdge(ax_labels_to_draw[k]) > TrailingEdge(ax_labels_to_draw[k - 1])

\* A thinned selection of at least two labels: step 1 overlapped.
C6_Witness ==
    /\ LaidOut
    /\ Len(ax_labels_to_draw) >= 2
    /\ Len(ax_labels_to_draw) < NumLabels
    /\ LeadingEdge(1) <= TrailingEdge(0)

ReversedTicker == ax_ticker.kind = "reverse" /\ ax_ticker.ticker.kind = "space_around"

\* No two labels' extents along the axis intersect or touch.
ExtentsDisjoint ==
    \A i, j \in 0..(NumLabels - 1) :
        i # j => (TrailingEdge(i) < LeadingEdge(j) \/ TrailingEdge(j) < LeadingEdge(i))

\* C8: with a reversed ticker whose labels' extents are pairwise disjoint,
\* fit_labels selects all N indices.
C8_ReversedTickerSelectsAll ==
    (LaidOut /\ ReversedTicker /\ ExtentsDisjoint) =>
        ax_labels_to_draw = [k \in 1..NumLabels |-> k - 1]

\* C9 as stated: with one or two candidate labels the selection is non-empty.
C9_Original ==
    (LaidOut /\ NumLabels \in {1, 2}) => ax_labels_to_draw # <<>>

\* C9 amended: a single candidate label is always selected; with two
\* candidates only step 1 is tried, so both are selected when label 1 starts
\* strictly after the end of label 0 and none otherwise.
C9_OneAlwaysTwoOnlyIfApart ==
    LaidOut =>
        /\ NumLabels = 1 => ax_labels_to_draw = <<0>>
        /\ NumLabels = 2 =>
               ax_labels_to_draw =
                   IF LeadingEdge(1) > TrailingEdge(0) THEN <<0, 1>> ELSE <<>>

\* Two candidates on an unreversed ticker that overlap: nothing is selected.
C9_Witness ==
    /\ LaidOut /\ NumLabels = 2 /\ ~ReversedTicker
    /\ ax_labels_to_draw = <<>>

\* Seven categories of one width W on a space-around ticker, horizontal axis.
SevenEqualLabels ==
    /\ ax_ticker.kind = "space_around"
    /\ Len(ax_ticker.sequence.categories) = SevenCategories
    /\ \A k \in 1..SevenCategories :
           ax_ticker.sequence.categories[k] = ax_ticker.sequence.categories[1]
    /\ ax_direction = "Horizontal"

\* 7 * W and L in model units.
SevenW == SevenCategories * ax_ticker.sequence.categories[1] * PxUnit

AllSeven == [k \in 1..SevenCategories |-> k - 1]

\* C10 as stated: all seven labels are selected whenever 7 * W <= L.
C10_Original ==
    (LaidOut /\ SevenEqualLabels) =>
        (ax_labels_to_draw = AllSeven <=> SevenW <= ax_axis_len)

\* C10 amended: all seven labels are selected exactly when 7 * W < L; when
\* 7 * W = L adjacent labels touch and the labels are thinned.
C10_AllSevenIffStrictlyNarrower ==
    (LaidOut /\ SevenEqualLabels) =>
        (ax_labels_to_draw = AllSeven <=> SevenW < ax_axis_len)

\* The boundary 7 * W = L: every second label is drawn.
C10_Witness ==
    /\ LaidOut /\ SevenEqualLabels
    /\ SevenW = ax_axis_len
    /\ ax_labels_to_draw = <<0, 2, 4, 6>>

----------------------------------------------------------------------------
(* Properties of Axis::draw and of a layout that can fail *)

\* The last call on the axis was draw / layout.
DrawCalled == ax_op = "draw"
LayoutCalled == ax_op = "layout"

\* self.ticker.len(self.axis_len)
TickCount == axis_ticker_len(ax_ticker, ax_axis_len)

\* C25: draw panics with "Must call `layout` before `draw`" when the ticker
\* has a tick and layout has not been called since the axis was built or
\* given its ticker, and without such a layout call draw draws no label.
C25_DrawBeforeLayoutPanics ==
    (DrawCalled /\ dr_layout = "none") =>
        /\ dr_drawn = <<>>
        /\ TickCount # 0 => dr_draw = "panic: must call layout"

\* draw has panicked on an axis whose new ticker has ticks and whose
\* selection is the one left by the layout of the ticker before.
C25_Witness ==
    /\ DrawCalled /\ dr_layout = "none"
    /\ TickCount # 0
    /\ ax_labels_to_draw # <<>>
    /\ dr_draw = "panic: must call layout"

\* The k-th label drawn is the k-th selected one, centred on its tick along
\* the axis.
DrawnCentred(k) ==
    LET idx  == ax_labels_to_draw[k]
        tick == axis_ticks(ax_ticker, ax_axis_len)[idx + 1]
        sz   == ax_label_layouts[idx + 1]
    IN  /\ dr_drawn[k].idx = idx
        /\ IF ax_direction = "Horizontal"
           THEN 2 * dr_drawn[k].pos.x = 2 * tick.pos.v - sz.width
           ELSE 2 * dr_drawn[k].pos.y = 2 * tick.pos.v - sz.height

\* C26: after a layout that returned Ok and selected a label, draw
\* completes for each direction and label position, and draws every
\* selected label centred on its tick along the axis.
C26_DrawCompletesForAllFour ==
    (DrawCalled /\ dr_layout = "Ok" /\ ax_labels_to_draw # <<>>) =>
        /\ dr_draw = "drawn"
        /\ Len(dr_drawn) = Len(ax_labels_to_draw)
        /\ \A k \in 1..Len(dr_drawn) : DrawnCentred(k)

\* C29: when layout has returned Ok, there are as many label layouts as
\* the ticker has ticks, and every selected index is below that count.
C29_OkLayoutCoversEveryTick ==
    (LayoutCalled /\ dr_layout = "Ok") =>
        /\ Len(ax_label_layouts) = TickCount
        /\ \A k \in 1..Len(ax_labels_to_draw) : ax_labels_to_draw[k] < TickCount

----------------------------------------------------------------------------
(* Properties of Interval *)

\* The last call was the constructor Interval::new / Interval::from_iter.
NewCalled == iv_op = "new"
FromIterCalled == iv_op = "from_iter"

\* C11:
\* Interval::new(min, max) panics unless both bounds are finite and
\* min < max, and returns the interval {min, max} otherwise; min = max,
\* min > max, an infinite bound and a NaN bound are all rejected.
C11_NewPanicsUnlessFiniteAndOrdered ==
    NewCalled =>
        LET min == iv_args[1]
            max == iv_args[2]
        IN  IF min.class = "finite" /\ max.class = "finite" /\ min.v < max.v
            THEN iv_status = "ok" /\ iv_interval = [min |-> min, max |-> max]
            ELSE iv_status = "panic"

\* Interval::new(1.0, 1.0) panicked.
C11_Witness ==
    /\ NewCalled /\ iv_status = "panic"
    /\ iv_args = <<Num(Unit), Num(Unit)>>

\* C12: an interval built by Interval::new still has -inf < min < max < inf
\* after any calls of its methods that did not panic.
C12_MethodsKeepMinBelowMax ==
    (iv_ctor = "new" /\ iv_status = "ok") =>
        /\ iv_interval.min.class = "finite" /\ iv_interval.max.class = "finite"
        /\ iv_interval.min.v < iv_interval.max.v

\* The finite values of the folded list, its least and its greatest.
FoldedValues == { iv_args[k].v : k \in 1..Len(iv_args) }
Least(S) == CHOOSE x \in S : \A y \in S : x <= y
Greatest(S) == CHOOSE x \in S : \A y \in S : x >= y

\* C13: folding finite values of which two are distinct yields the interval
\* [least value, greatest value], whatever their order.
C13_FoldYieldsSmallestInterval ==
    (/\ FromIterCalled
     /\ \A k \in 1..Len(iv_args) : iv_args[k].class = "finite"
     /\ Cardinality(FoldedValues) >= 2) =>
        /\ iv_status = "ok"
        /\ iv_interval = [min |-> Num(Least(FoldedValues)),
                          max |-> Num(Greatest(FoldedValues))]

\* C14: Interval::from_iter of an empty iterator panics.
C14_EmptyFoldPanics ==
    (FromIterCalled /\ iv_args = <<>>) => iv_status = "panic"

----------------------------------------------------------------------------
(* Properties of the tickers *)

\* The last call on the laid out ticker was get / ticks.
GetCalled == tt_pc = "laid_out" /\ tt_op = "get"
TicksCalled == tt_pc = "laid_out" /\ tt_op = "ticks"

\* The ticker below any ReverseTicker wrappers.
RECURSIVE Unreversed(_)
Unreversed(t) == IF t.kind = "reverse" THEN Unreversed(t.ticker) ELSE t

\* The ticker is a sequence ticker, possibly reversed.
OverSequence == Unreversed(tt_ticker).kind \in {"space_around", "space_between"}

\* C15: after layout, get(idx) is Some exactly when idx < len().
C15_GetSomeIffBelowLen ==
    GetCalled => (tt_got.some <=> tt_idx < len(tt_ticker))

\* C16: the iterator of the ticker's sequence yields exactly len() items,
\* the i-th being get(i), so ticks() yields exactly len() ticks.  (The label
\* of a sequence ticker's tick is the item the iterator yielded.)
C16_IterYieldsLenItems ==
    TicksCalled =>
        /\ Len(tt_ticks) = len(tt_ticker)
        /\ OverSequence =>
               LET sq == Unreversed(tt_ticker).sequence
               IN  /\ Len(tt_ticks) = seq_len(sq)
                   /\ \A i \in 1..Len(tt_ticks) :
                          seq_get(sq, i - 1) = Some(tt_ticks[i].label)

\* pos is a number with 0 <= pos <= axis_len.
OnAxis(pos) == pos.class = "finite" /\ 0 <= pos.v /\ pos.v <= tt_axis_len

\* C17: after layout(L), every tick returned by get or ticks has
\* 0 <= pos <= L.
C17_TickPosOnAxis ==
    /\ (GetCalled /\ tt_got.some) => OnAxis(tt_got.v.pos)
    /\ TicksCalled => \A k \in 1..Len(tt_ticks) : OnAxis(tt_ticks[k].pos)

\* C18: an IntervalTicker laid out with axis_len < 120 has len() = 0 and
\* ticks() empty.
C18_ShortAxisNoTicks ==
    (/\ TicksCalled
     /\ tt_ticker.kind = "interval"
     /\ tt_axis_len < 120 * PxUnit) =>
        (len(tt_ticker) = 0 /\ tt_ticks = <<>>)

\* max(n - 1, 1)
FlooredDivisor(n) == IF n - 1 > 1 THEN n - 1 ELSE 1

\* C19: SpaceBetweenTicker::layout does not fail, also for n = 0 and n = 1,
\* the gap is axis_len / max(n - 1, 1), and get(idx) is at gap * idx.
C19_SpaceBetweenPositions ==
    (tt_ticker.kind = "space_between" /\ tt_relayout # "none") =>
        LET n == seq_len(tt_ticker.sequence)
        IN  /\ tt_pc = "laid_out"
            /\ tt_ticker.gap.v.class = "finite"
            /\ tt_ticker.gap.v.v * FlooredDivisor(n) = tt_axis_len
            /\ (tt_op = "get" /\ tt_got.some) =>
                   /\ tt_got.v.pos.class = "finite"
                   /\ tt_got.v.pos.v * FlooredDivisor(n) = tt_axis_len * tt_idx

\* axis_len / n * (idx + 0.5) as an f64: for n = 0 the quotient is infinite,
\* or NaN when axis_len is 0 as well.
SlotCentre(n, idx) ==
    IF n = 0
    THEN (IF tt_axis_len = 0 THEN [class |-> "nan"] ELSE [class |-> "inf"])
    ELSE [class |-> "finite", twice_n_times |-> tt_axis_len * (2 * idx + 1)]

\* pos is the value SlotCentre(n, idx).
AtSlotCentre(pos, n, idx) ==
    /\ pos.class = SlotCentre(n, idx).class
    /\ pos.class = "finite" => 2 * n * pos.v = SlotCentre(n, idx).twice_n_times
    /\ pos.class = "inf" => pos.v > 0

RECURSIVE Fresh(_)
Fresh(t) ==
    IF t.kind = "space_around" THEN SpaceAroundTicker(t.sequence)
    ELSE IF t.kind = "space_between" THEN SpaceBetweenTicker(t.sequence)
    ELSE IF t.kind = "interval" THEN IntervalTicker(t.interval)
    ELSE ReverseTicker(Fresh(t.ticker))

\* C21: what get and ticks return after layout(L) is what a ticker built
\* from the same data and laid out once with L returns, whatever layout
\* calls came before.
C21_LayoutForgetsEarlierLayouts ==
    LET once == layout(Fresh(tt_ticker), tt_axis_len)
    IN  /\ TicksCalled => tt_ticks = ticks(once)
        /\ GetCalled => tt_got = get(once, tt_idx)

\* Four categories laid out with some other length and then with 120
\* pixels have their ticks at 15, 45, 75 and 105.
C21_Witness ==
    /\ TicksCalled
    /\ tt_relayout = "other"
    /\ tt_ticker.kind = "space_around"
    /\ tt_axis_len = 120 * PxUnit
    /\ Len(tt_ticks) = 4
    /\ tt_ticks[1].pos = Num(15 * PxUnit)

\* p is axis_len - q as an f64.
Mirrored(p, q) ==
    IF q.class = "finite" THEN p.class = "finite" /\ p.v + q.v = tt_axis_len
    ELSE IF q.class = "inf" THEN p.class = "inf" /\ p.v + q.v = 0
    ELSE is_nan(p)

\* C22: after layout(L) a ReverseTicker has the len() of its inner ticker,
\* and for idx < len its get(idx) is the inner ticker's tick with the same
\* label and the position L - pos.
C22_ReverseMirrorsInner ==
    (GetCalled /\ tt_ticker.kind = "reverse") =>
        LET inner == get(tt_ticker.ticker, tt_idx)
        IN  /\ len(tt_ticker) = len(tt_ticker.ticker)
            /\ tt_idx < len(tt_ticker) =>
                   /\ tt_got.some
                   /\ inner.some
                   /\ tt_got.v.label = inner.v.label
                   /\ Mirrored(tt_got.v.pos, inner.v.pos)

\* The first of four reversed categories on 120 pixels is at 120 - 15.
C22_Witness ==
    /\ GetCalled
    /\ tt_ticker.kind = "reverse"
    /\ tt_ticker.ticker.kind = "space_around"
    /\ tt_axis_len = 120 * PxUnit
    /\ tt_idx = 0
    /\ tt_got = Some(Tick(Num(105 * PxUnit), 1))

\* The ticker was reversed (at least) twice.
ReversedTwice ==
    tt_ticker.kind = "reverse" /\ tt_ticker.ticker.kind = "reverse"

\* C23: a ticker reversed twice and laid out with L returns, for every
\* index, a tick exactly when the original ticker laid out with L does, at
\* the same position.
C23_DoubleReverseRestoresPositions ==
    LET original == layout(Fresh(tt_ticker.ticker.ticker), tt_axis_len)
    IN  /\ (GetCalled /\ ReversedTwice) =>
               LET tick == get(original, tt_idx)
               IN  /\ tt_got.some <=> tick.some
                   /\ tt_got.some => tt_got.v.pos = tick.v.pos
        /\ (TicksCalled /\ ReversedTwice) =>
               \A k \in 1..Len(tt_ticks) :
                   /\ k <= Len(ticks(original))
                   /\ tt_ticks[k].pos = ticks(original)[k].pos

\* The first of four categories on 120 pixels, reversed twice, is at 15
\* again (once reversed it is at 105).
C23_Witness ==
    /\ GetCalled /\ ReversedTwice
    /\ tt_ticker.ticker.ticker.kind = "space_around"
    /\ tt_axis_len = 120 * PxUnit
    /\ tt_idx = 0
    /\ tt_got = Some(Tick(Num(15 * PxUnit), 1))

\* idx is below len(), where len() can be asked; an IntervalTicker has no
\* len() before its layout, and then every idx counts.
BelowLen(t, idx) == IF len_panics(t) THEN TRUE ELSE idx < len(t)

\* C24: while layout has not been called on the ticker, get(idx) with
\* idx < len and ticks() of a ticker with an item panic, and no call
\* returns a tick.
C24_NoTickBeforeLayout ==
    tt_relayout = "none" =>
        /\ ~tt_got.some
        /\ tt_ticks = <<>>
        /\ (tt_op = "get" /\ BelowLen(tt_ticker, tt_idx)) => tt_pc = "panic"
        /\ (tt_op = "ticks" /\ BelowLen(tt_ticker, 0)) => tt_pc = "panic"

\* get(0) on the new ReverseTicker around a laid out ticker of four
\* categories has panicked.
C24_Witness ==
    /\ tt_relayout = "none"
    /\ tt_op = "get" /\ tt_idx = 0
    /\ tt_pc = "panic"
    /\ tt_ticker.kind = "reverse"
    /\ tt_ticker.ticker.kind = "space_around"
    /\ tt_ticker.ticker.gap.some
    /\ seq_len(tt_ticker.ticker.sequence) = 4

----------------------------------------------------------------------------
(* Properties of HistogramTrace *)

\* C30: after layout, bar_width and the default positions are those of a
\* new trace of the same values laid out once with the retained size: the
\* positions are gap * (i + 0.5) with gap = size.width / n.
C30_BarsFollowLastSize ==
    (hs_op = "layout" /\ hs_default) =>
        LET once == trace_layout(HistogramTrace(hs_values), hs_size.v)
            n    == Len(hs_values)
        IN  /\ hs_bar_width = once.bar_width
            /\ hs_positions = once.positions
            /\ \A k \in 1..n :
                   /\ hs_positions.v[k].class = "finite"
                   /\ 2 * n * hs_positions.v[k].v
                          = hs_size.v.width * (2 * (k - 1) + 1)

====
